---------------------------- MODULE Spec2Model ----------------------------
(***************************************************************************)
(* Model of contractfillercli.py: the header normaliser, the default date  *)
(* formatter and the generator read_data (format dispatch, the four        *)
(* readers, normalisation, validation, the invalid sink and its flush).    *)
(*                                                                         *)
(* Text is a sequence of one-character strings.  Characters outside ASCII  *)
(* are written by code point: "U+0131" is the dotless i, "U+015F" the s    *)
(* with cedilla, "U+0130" the dotted capital I, "U+00A0" the no-break      *)
(* space, "U+0327" and "U+0307" the combining cedilla and dot above.       *)
(***************************************************************************)
EXTENDS Integers, Sequences, FiniteSets, TLC

VARIABLES
    hdr,               \* argument of a normalize_header call
    hdrOut,            \* its result, NotApplied before the call
    suffix,            \* Path(file_path).suffix, as given by the caller
    as_list,           \* keyword argument as_list
    return_dataframe,  \* keyword argument return_dataframe
    required_fields,   \* keyword argument required_fields (raw names)
    date_fields,       \* keyword argument date_fields (raw names)
    date_formatter,    \* keyword argument date_formatter
    pc,                \* position of the generator returned by read_data
    hist,              \* raw items the reader has taken from the source
    invalid_rows,      \* the local list invalid_rows
    out_rows,          \* the local list out_rows
    yielded,           \* records the generator has yielded to its caller
    logs,              \* set of <<level, message tag>> passed to log()
    sinkFile,          \* content of the invalid-sink file, NoFile if none
    flushes,           \* number of times the flush block (253-260) ran
    fileOpen,          \* the reader holds an open handle on the source
    raised,            \* exception that left the generator, "none" if none
    retval,            \* value carried by the generator's return
    column_map,        \* keyword argument column_map
    callValue          \* what the expression read_data(...) evaluated to

vars == <<hdr, hdrOut, suffix, as_list, return_dataframe, required_fields,
          date_fields, date_formatter, pc, hist, invalid_rows, out_rows,
          yielded, logs, sinkFile, flushes, fileOpen, raised, retval, column_map,
          callValue>>

readVars == <<suffix, as_list, return_dataframe, required_fields, date_fields,
              date_formatter, pc, hist, invalid_rows, out_rows, yielded,
              logs, sinkFile, flushes, fileOpen, raised, retval, column_map,
              callValue>>

-----------------------------------------------------------------------------
(* Bounds *)

MaxHeaderLen == 3
MaxRows == 2

-----------------------------------------------------------------------------
(* Characters *)

NonAscii == {"U+0131", "U+015F", "U+0130", "U+00A0", "U+0327", "U+0307"}

IsAscii(c) == c \notin NonAscii

\* str.strip() with no argument removes whitespace.
IsSpace(c) == c \in {" ", "\t", "U+00A0"}

IsDigit(c) == c \in {"0", "1", "2", "3", "4", "5", "6", "7", "8", "9"}

\* unicodedata.normalize("NFKD", c) for one character.
NFKD(c) ==
    CASE c = "U+015F" -> <<"s", "U+0327">>
      [] c = "U+0130" -> <<"I", "U+0307">>
      [] c = "U+00A0" -> <<" ">>
      [] OTHER -> <<c>>

\* str.lower() for one ASCII character.
Lower(c) ==
    CASE c = "A" -> "a" [] c = "B" -> "b" [] c = "C" -> "c" [] c = "D" -> "d"
      [] c = "I" -> "i" [] c = "N" -> "n" [] c = "S" -> "s" [] c = "Y" -> "y"
      [] OTHER -> c

\* unicodedata.normalize("NFKD", s)
RECURSIVE NFKDSeq(_)
NFKDSeq(s) == IF s = <<>> THEN <<>> ELSE NFKD(Head(s)) \o NFKDSeq(Tail(s))

\* str.lower()
LowerSeq(s) == [i \in 1..Len(s) |-> Lower(s[i])]

RECURSIVE LStrip(_)
LStrip(s) == IF s # <<>> /\ IsSpace(Head(s)) THEN LStrip(Tail(s)) ELSE s

RECURSIVE RStrip(_)
RStrip(s) ==
    IF s # <<>> /\ IsSpace(s[Len(s)]) THEN RStrip(SubSeq(s, 1, Len(s) - 1)) ELSE s

\* str.strip()
Strip(s) == RStrip(LStrip(s))

\* .encode("ascii", "ignore").decode("ascii")
AsciiIgnore(s) == SelectSeq(s, IsAscii)

\* .replace(" ", "_"): every single space becomes one underscore.
ReplaceSpaces(s) == [i \in 1..Len(s) |-> IF s[i] = " " THEN "_" ELSE s[i]]

normalize_header(header) ==
    IF header = <<>> THEN <<>>
    ELSE ReplaceSpaces(LowerSeq(Strip(AsciiIgnore(NFKDSeq(header)))))

-----------------------------------------------------------------------------
(* Values of record fields.  A string is [t |-> "str", s |-> text], None   *)
(* is [t |-> "none"], a number [t |-> "num", n |-> n], a datetime          *)
(* [t |-> "date", y, m, d].                                                *)

Str(s) == [t |-> "str", s |-> s]
None == [t |-> "none"]
Num(n) == [t |-> "num", n |-> n]
Date(y, m, d) == [t |-> "date", y |-> y, m |-> m, d |-> d]

\* bool(v) in Python.
Truthy(v) ==
    CASE v.t = "str" -> v.s # <<>>
      [] v.t = "none" -> FALSE
      [] v.t = "num" -> v.n # 0
      [] OTHER -> TRUE

DigitVal(c) ==
    CASE c = "0" -> 0 [] c = "1" -> 1 [] c = "2" -> 2 [] c = "3" -> 3
      [] c = "4" -> 4 [] c = "5" -> 5 [] c = "6" -> 6 [] c = "7" -> 7
      [] c = "8" -> 8 [] c = "9" -> 9

DigitChar(n) ==
    CASE n = 0 -> "0" [] n = 1 -> "1" [] n = 2 -> "2" [] n = 3 -> "3"
      [] n = 4 -> "4" [] n = 5 -> "5" [] n = 6 -> "6" [] n = 7 -> "7"
      [] n = 8 -> "8" [] n = 9 -> "9"

RECURSIVE ToInt(_)
ToInt(s) == IF s = <<>> THEN 0 ELSE 10 * ToInt(SubSeq(s, 1, Len(s) - 1)) + DigitVal(s[Len(s)])

AllDigits(s) == \A i \in 1..Len(s) : IsDigit(s[i])

IsLeap(y) == (y % 4 = 0 /\ y % 100 # 0) \/ y % 400 = 0

DaysIn(y, m) ==
    IF m = 2 THEN (IF IsLeap(y) THEN 29 ELSE 28)
    ELSE IF m \in {4, 6, 9, 11} THEN 30 ELSE 31

\* A field of the %m or %d directive: one or two digits, not "0" or "00"
\* (for %d also a space followed by a digit).
FieldOk(p, allowSpace) ==
    \/ Len(p) \in {1, 2} /\ AllDigits(p) /\ ToInt(p) > 0
    \/ allowSpace /\ Len(p) = 2 /\ p[1] = " " /\ IsDigit(p[2]) /\ p[2] # "0"

FieldVal(p) == IF p[1] = " " THEN DigitVal(p[2]) ELSE ToInt(p)

\* datetime.strptime(s, "%Y-%m-%d"): the parsed date, or None when it raises.
Strptime(s) ==
    IF Len(s) < 8 \/ Len(s) > 10 \/ s[5] # "-" \/ ~AllDigits(SubSeq(s, 1, 4))
    THEN None
    ELSE LET rest == SubSeq(s, 6, Len(s))
             dashes == {j \in 1..Len(rest) : rest[j] = "-"}
         IN IF Cardinality(dashes) # 1 THEN None
            ELSE LET j == CHOOSE k \in dashes : TRUE
                     mp == SubSeq(rest, 1, j - 1)
                     dp == SubSeq(rest, j + 1, Len(rest))
                 IN IF ~FieldOk(mp, FALSE) \/ ~FieldOk(dp, TRUE) THEN None
                    ELSE LET y == ToInt(SubSeq(s, 1, 4))
                             m == FieldVal(mp)
                             d == FieldVal(dp)
                         IN IF y < 1 \/ m > 12 \/ d > DaysIn(y, m) THEN None
                            ELSE Date(y, m, d)

TwoDigits(n) == <<DigitChar(n \div 10), DigitChar(n % 10)>>

FourDigits(n) ==
    <<DigitChar(n \div 1000), DigitChar((n \div 100) % 10)>> \o TwoDigits(n % 100)

\* strftime("%d/%m/%Y")
Strftime(dt) == Str(TwoDigits(dt.d) \o <<"/">> \o TwoDigits(dt.m) \o <<"/">> \o FourDigits(dt.y))

format_date(value) ==
    IF value.t = "str"
    THEN LET dt == Strptime(value.s)
         IN IF dt = None THEN value     \* except: str(value), the same text
            ELSE Strftime(dt)
    ELSE IF value.t = "date" THEN Strftime(value)
    ELSE value

-----------------------------------------------------------------------------
(* Texts used by the program and by the inputs *)

T_Name == <<"N", "a", "m", "e">>
T_Surname == <<"S", "u", "r", "n", "a", "m", "e">>
T_BirthDate == <<"B", "i", "r", "t", "h", " ", "D", "a", "t", "e">>
K_name == <<"n", "a", "m", "e">>
K_surname == <<"s", "u", "r", "n", "a", "m", "e">>
K_birth_date == <<"b", "i", "r", "t", "h", "_", "d", "a", "t", "e">>
K_dob == <<"d", "o", "b">>
K_errors == <<"_", "e", "r", "r", "o", "r", "s">>
K_raw == <<"_", "r", "a", "w">>
T_missing == <<"m", "i", "s", "s", "i", "n", "g", ":", " ">>
T_json_decode == <<"j", "s", "o", "n", "_", "d", "e", "c", "o", "d", "e", ":">>
T_json_not_object ==
    <<"j", "s", "o", "n", "_", "n", "o", "t", "_", "o", "b", "j", "e", "c", "t">>

V_Ayse == <<"A", "y", "U+015F", "e">>
V_Yilmaz == <<"Y", "U+0131", "l", "m", "a", "z">>
V_1990_05_01 == <<"1", "9", "9", "0", "-", "0", "5", "-", "0", "1">>
V_1990_02_30 == <<"1", "9", "9", "0", "-", "0", "2", "-", "3", "0">>
V_01_05_1990 == <<"0", "1", "/", "0", "5", "/", "1", "9", "9", "0">>
V_dotted == <<"0", "1", ".", "0", "5", ".", "1", "9", "9", "0">>
V_A_padded == <<" ", "A", " ">>

-----------------------------------------------------------------------------
(* Source items.  A raw record is the ordered sequence of its <<key,       *)
(* value>> pairs, as a Python dict keeps them.                             *)

Obj(pairs) == [k |-> "obj", rec |-> pairs]
Scalar(v) == [k |-> "scalar", v |-> v, text |-> <<"5">>]
Malformed == [k |-> "malformed", text |-> <<"{", "b", "a", "d">>,
              err |-> <<"E", "x", "p", "e", "c", "t", "i", "n", "g">>]
BlankLine == [k |-> "blankline"]

CsvAyse == Obj(<< <<T_Name, Str(V_Ayse)>>, <<T_Surname, Str(V_Yilmaz)>>,
                  <<T_BirthDate, Str(V_1990_05_01)>> >>)
CsvBlank == Obj(<< <<T_Name, Str(<<>>)>>, <<T_Surname, Str(<<>>)>>,
                   <<T_BirthDate, Str(<<>>)>> >>)
CsvNoSurname == Obj(<< <<T_Name, Str(V_A_padded)>>, <<T_Surname, Str(<<>>)>>,
                       <<T_BirthDate, Str(V_1990_02_30)>> >>)

XlsAyse == Obj(<< <<T_Name, Str(V_Ayse)>>, <<T_Surname, Str(V_Yilmaz)>>,
                  <<T_BirthDate, Date(1990, 5, 1)>> >>)
XlsBlank == Obj(<< <<T_Name, None>>, <<T_Surname, None>>, <<T_BirthDate, None>> >>)
XlsZero == Obj(<< <<T_Name, Num(0)>>, <<T_Surname, None>>, <<T_BirthDate, None>> >>)
XlsNoName == Obj(<< <<T_Name, None>>, <<T_Surname, Str(V_Yilmaz)>>,
                    <<T_BirthDate, Date(1990, 5, 1)>> >>)

ObjA == Obj(<< <<K_name, Str(<<"A">>)>> >>)
ObjFull == Obj(<< <<T_Name, Str(<<"A">>)>>, <<T_Surname, Str(<<"B">>)>>,
                  <<T_BirthDate, Str(V_1990_05_01)>> >>)
ObjEmpty == Obj(<<>>)
ObjBlank == Obj(<< <<K_name, Str(<<>>)>>, <<K_surname, None>> >>)
ObjErr == Obj(<< <<K_errors, Str(<<"x">>)>>, <<K_name, Str(<<"A">>)>> >>)

\* The records and lines a source of each format may hold.
Items(fmt) ==
    CASE fmt = ".csv" -> {CsvAyse, CsvBlank, CsvNoSurname}
      [] fmt = ".xlsx" -> {XlsAyse, XlsBlank, XlsZero, XlsNoName}
      [] fmt = ".json" -> {ObjA, ObjFull, ObjEmpty, ObjBlank,
                           Scalar(Num(5)), Scalar(Num(0))}
      [] fmt = ".jsonl" -> {ObjA, ObjEmpty, ObjErr, Scalar(Num(5)), Malformed,
                            BlankLine}
      [] OTHER -> {}

Suffixes == {".csv", ".CSV", ".xlsx", ".json", ".jsonl", ".txt"}
RequiredChoices == {<<>>, <<K_surname>>, <<T_Name, T_Surname>>}
ColumnMaps == {<<>>, <<T_BirthDate, K_dob>>}
DateChoices == {<< <<>>, "None" >>, << <<K_birth_date>>, "None" >>,
                << <<K_birth_date>>, "format_date" >>,
                << <<K_birth_date>>, "raises" >>, << <<K_birth_date>>, "dict" >>}

\* The static mapping passed as date_formatter when it is a dict.
DateDict == (Str(V_1990_05_01) :> Str(V_dotted))

NotApplied == [t |-> "not applied"]
NoFile == [t |-> "no file"]
File(content) == [t |-> "file", content |-> content]
Generator == [t |-> "generator"]
List(rows) == [t |-> "list", rows |-> rows]
DataFrame(rows) == [t |-> "DataFrame", rows |-> rows]

-----------------------------------------------------------------------------
(* read_data: set-up (lines 102-109) *)

\* path.suffix.lower()
SuffixLower(s) == IF s = ".CSV" THEN ".csv" ELSE s

fmt == SuffixLower(suffix)

\* colmap = {normalize_header(k): v for k, v in (column_map or {}).items()}
colmap ==
    IF column_map = <<>> THEN <<>>
    ELSE (normalize_header(column_map[1]) :> column_map[2])

req == [i \in 1..Len(required_fields) |-> normalize_header(required_fields[i])]

date_keys == [i \in 1..Len(date_fields) |-> normalize_header(date_fields[i])]

want_list == as_list \/ return_dataframe

-----------------------------------------------------------------------------
(* read_data: the nested helpers *)

\* One iteration of the first loop of normalize_row.
NormalizeField(row, k, v) ==
    LET nk == IF k # <<>> THEN normalize_header(k) ELSE <<>>
        new_key == IF column_map # <<>> /\ nk \in DOMAIN colmap THEN colmap[nk] ELSE nk
        val == IF v.t = "str" THEN Str(Strip(v.s)) ELSE v
    IN (new_key :> val) @@ row

RECURSIVE BuildRow(_, _)
BuildRow(raw, row) ==
    IF raw = <<>> THEN row
    ELSE BuildRow(Tail(raw), NormalizeField(row, Head(raw)[1], Head(raw)[2]))

\* The body of the loop over date_keys, for one key.
ApplyDate(row, dk) ==
    IF dk \in DOMAIN row /\ Truthy(row[dk])
    THEN CASE date_formatter = "format_date" -> [row EXCEPT ![dk] = format_date(@)]
           [] date_formatter = "dict" ->
                IF row[dk] \in DOMAIN DateDict
                THEN [row EXCEPT ![dk] = DateDict[@]] ELSE row
           [] OTHER -> row          \* the formatter raised: value kept
    ELSE row

RECURSIVE ApplyDates(_, _)
ApplyDates(row, keys) ==
    IF keys = <<>> THEN row ELSE ApplyDates(ApplyDate(row, Head(keys)), Tail(keys))

normalize_row(raw) ==
    LET row == BuildRow(raw, <<>>)
    IN IF date_formatter # "None" /\ date_keys # <<>>
       THEN ApplyDates(row, date_keys) ELSE row

\* The warnings normalize_row logs for a raw record.
NormalizeWarnings(raw) ==
    LET row == BuildRow(raw, <<>>)
    IN IF /\ date_formatter = "raises"
          /\ \E i \in 1..Len(date_keys) :
                date_keys[i] \in DOMAIN row /\ Truthy(row[date_keys[i]])
       THEN {<<"warning", "date_formatter error">>} ELSE {}

\* is_valid(row)[1]: the required names that row.get(f) finds falsy.
Missing(row) ==
    LET Absent(f) == ~(f \in DOMAIN row /\ Truthy(row[f]))
    IN SelectSeq(req, Absent)

\* A deviation: a required name counts as missing only when the key is absent.
is_valid_key_only(row) ==
    LET Absent(f) == f \notin DOMAIN row
    IN <<SelectSeq(req, Absent) = <<>>, SelectSeq(req, Absent)>>

is_valid(row) == <<Missing(row) = <<>>, Missing(row)>>

\* [f"missing: {m}" for m in missing]
MissingReasons(missing) == [i \in 1..Len(missing) |-> T_missing \o missing[i]]

Reasons(rs) == [t |-> "list", items |-> rs]

\* A deviation: the copy is appended without its reasons.
record_invalid_sink_no_reasons(rows, row, reason) == Append(rows, row)

record_invalid_sink(rows, row, reason) ==
    Append(rows, (K_errors :> Reasons(reason)) @@ row)

\* emit_row(row): the row itself in streaming mode, None (after appending
\* to out_rows) in materialized mode.
emit_row(row) == IF want_list THEN None ELSE [t |-> "dict", row |-> row]

\* Lines 159-166, 176-183, 195-202 and 218-225: normalise, validate, then
\* reject or emit.
Process(raw) ==
    LET row == normalize_row(raw)
        v == is_valid(row)
    IN IF ~v[1]
       THEN [kind |-> "reject", row |-> row, reasons |-> MissingReasons(v[2]),
             warn |-> NormalizeWarnings(raw)]
       ELSE [kind |-> "emit", row |-> row, warn |-> NormalizeWarnings(raw)]

\* any(raw.values())
AnyTruthy(raw) == \E i \in 1..Len(raw) : Truthy(raw[i][2])

Skip == [kind |-> "skip", warn |-> {}]

read_csv(item) ==
    IF item.rec = <<>> \/ ~AnyTruthy(item.rec) THEN Skip ELSE Process(item.rec)

read_xlsx(item) ==
    IF item.rec = <<>> \/ ~AnyTruthy(item.rec) THEN Skip ELSE Process(item.rec)

read_json(item) ==
    IF item.k = "scalar"
    THEN IF ~Truthy(item.v) THEN Skip
         ELSE [kind |-> "skip", warn |-> {<<"warning", "JSON record is not a dict">>}]
    ELSE IF item.rec = <<>> \/ ~AnyTruthy(item.rec) THEN Skip
    ELSE Process(item.rec)

\* A deviation: the reason is the decoder's message without its tag.
jsonl_decode_error_untagged(item) ==
    [kind |-> "sink", row |-> (K_raw :> Str(item.text)),
     reasons |-> <<item.err>>, warn |-> {}]

\* The handling of a line json.loads cannot parse (lines 212-214).
jsonl_decode_error(item) ==
    [kind |-> "sink", row |-> (K_raw :> Str(item.text)),
     reasons |-> <<T_json_decode \o item.err>>, warn |-> {}]

\* The handling of a line that parses to a non-dict (lines 215-217).
jsonl_not_object(item) ==
    [kind |-> "sink", row |-> (K_raw :> Str(item.text)),
     reasons |-> <<T_json_not_object>>, warn |-> {}]

read_jsonl(item) ==
    CASE item.k = "blankline" -> Skip
      [] item.k = "malformed" -> jsonl_decode_error(item)
      [] item.k = "scalar" -> jsonl_not_object(item)
      [] OTHER -> Process(item.rec)

\* One iteration of the loop of the reader the suffix selected.
ReaderStep(item) ==
    CASE fmt = ".csv" -> read_csv(item)
      [] fmt = ".xlsx" -> read_xlsx(item)
      [] fmt = ".json" -> read_json(item)
      [] OTHER -> read_jsonl(item)

-----------------------------------------------------------------------------
(* read_data: the flush of the invalid sink and the return (253-272) *)

\* json.dumps raises TypeError on a datetime.
CanDump(rows) ==
    \A i \in 1..Len(rows) : \A k \in DOMAIN rows[i] : rows[i][k].t # "date"

JsonValue(v) ==
    CASE v.t = "str" -> [j |-> "string", s |-> v.s]
      [] v.t = "none" -> [j |-> "null"]
      [] v.t = "num" -> [j |-> "number", n |-> v.n]
      [] v.t = "list" ->
           [j |-> "array",
            items |-> [i \in 1..Len(v.items) |-> [j |-> "string", s |-> v.items[i]]]]

\* json.dumps(invalid_rows, ...): one JSON object per row, in order.
JsonDumps(rows) ==
    [i \in 1..Len(rows) |-> [k \in DOMAIN rows[i] |-> JsonValue(rows[i][k])]]

\* The value the generator returns (lines 262-272).
ReturnValue(pandas) ==
    IF return_dataframe
    THEN IF pandas THEN DataFrame(out_rows)
         ELSE IF as_list THEN List(out_rows) ELSE List(<<>>)
    ELSE IF as_list THEN List(out_rows) ELSE None

\* Lines 253-272, reached after the try statement: lg is the log so far.
\* mkdir (line 255) stands outside the try of the write, so its failure
\* leaves the generator as an exception.
Finish(lg) ==
    /\ flushes' = flushes + 1
    /\ fileOpen' = FALSE
    /\ \E mk \in {"ok", "fail"}, wr \in {"ok", "fail"}, pandas \in BOOLEAN :
         IF invalid_rows # <<>> /\ mk = "fail"
         THEN /\ pc' = "raised"
              /\ raised' = "OSError"
              /\ logs' = lg
              /\ UNCHANGED <<sinkFile, retval>>
         ELSE /\ pc' = "done"
              /\ raised' = raised
              /\ retval' = ReturnValue(pandas)
              /\ sinkFile' = IF invalid_rows # <<>> /\ wr = "ok" /\ CanDump(invalid_rows)
                             THEN File(JsonDumps(invalid_rows)) ELSE sinkFile
              /\ logs' = lg
                   \cup (IF invalid_rows = <<>> THEN {}
                         ELSE IF wr = "ok" /\ CanDump(invalid_rows)
                              THEN {<<"warning", "invalid rows saved">>}
                              ELSE {<<"error", "Could not write invalid rows">>})
                   \cup (IF return_dataframe /\ ~pandas
                         THEN {<<"error", "pandas not available">>} ELSE {})

-----------------------------------------------------------------------------
(* read_data: the generator *)

\* The keyword arguments of the calls: every output mode with every choice
\* of required_fields, and streaming calls with every choice of column_map,
\* date_fields and date_formatter.
Calls ==
    {[al |-> al, rd |-> rd, rf |-> rf, cm |-> <<>>, df |-> <<>>, fm |-> "None"] :
        al \in BOOLEAN, rd \in BOOLEAN, rf \in RequiredChoices}
    \cup
    {[al |-> FALSE, rd |-> FALSE, rf |-> rf, cm |-> cm, df |-> dc[1], fm |-> dc[2]] :
        rf \in {<<>>, <<T_Name, T_Surname>>}, cm \in ColumnMaps, dc \in DateChoices}

Config ==
    /\ suffix \in Suffixes
    /\ \E c \in Calls :
         /\ as_list = c.al
         /\ return_dataframe = c.rd
         /\ required_fields = c.rf
         /\ column_map = c.cm
         /\ date_fields = c.df
         /\ date_formatter = c.fm

\* Calling read_data runs none of its body: the function holds a yield
\* (line 244), so the call evaluates to a generator object.
Created ==
    /\ pc = "created"
    /\ callValue = Generator
    /\ hist = <<>>
    /\ invalid_rows = <<>>
    /\ out_rows = <<>>
    /\ yielded = <<>>
    /\ logs = {}
    /\ sinkFile = NoFile
    /\ flushes = 0
    /\ fileOpen = FALSE
    /\ raised = "none"
    /\ retval = NotApplied

Init ==
    /\ hdr = <<>>
    /\ hdrOut = NotApplied
    /\ Config
    /\ Created

Supported == fmt \in {".csv", ".xlsx", ".json", ".jsonl"}

\* The caller's first next(): the suffix is recognised and the reader opens
\* its source.  read_json loads the whole file and closes it at once.
Start ==
    /\ pc = "created"
    /\ Supported
    /\ pc' = "reading"
    /\ fileOpen' = (fmt # ".json")
    /\ UNCHANGED <<hdr, hdrOut, suffix, as_list, return_dataframe, required_fields,
                   date_fields, date_formatter, column_map, callValue, hist,
                   invalid_rows, out_rows, yielded, logs, sinkFile, flushes,
                   raised, retval>>

\* The caller's first next() with an unrecognised suffix: the ValueError of
\* line 237 is raised inside the try and caught by line 250.
StartUnsupported ==
    /\ pc = "created"
    /\ ~Supported
    /\ Finish(logs \cup {<<"error", "Unexpected error while reading">>})
    /\ UNCHANGED <<hdr, hdrOut, suffix, as_list, return_dataframe, required_fields,
                   date_fields, date_formatter, column_map, callValue, hist,
                   invalid_rows, out_rows, yielded>>

ErrorLog(exc) ==
    CASE exc = "FileNotFoundError" -> <<"error", "File not found">>
      [] exc = "PermissionError" -> <<"error", "Permission denied">>
      [] OTHER -> <<"error", "Unexpected error while reading">>

\* The caller's first next() when the source cannot be opened or loaded.
StartOpenFails ==
    /\ pc = "created"
    /\ Supported
    /\ \E exc \in {"FileNotFoundError", "PermissionError", "Exception"} :
         Finish(logs \cup {ErrorLog(exc)})
    /\ UNCHANGED <<hdr, hdrOut, suffix, as_list, return_dataframe, required_fields,
                   date_fields, date_formatter, column_map, callValue, hist,
                   invalid_rows, out_rows, yielded>>

\* One iteration of the reader's loop on the next item of the source.
ReadItem ==
    /\ pc = "reading"
    /\ Len(hist) < MaxRows
    /\ \E item \in Items(fmt) :
         LET o == ReaderStep(item)
             emitted == IF o.kind = "emit" THEN emit_row(o.row) ELSE None
         IN /\ hist' = Append(hist, item)
            /\ logs' = logs \cup o.warn
            /\ invalid_rows' = IF o.kind \in {"reject", "sink"}
                               THEN record_invalid_sink(invalid_rows, o.row, o.reasons)
                               ELSE invalid_rows
            /\ out_rows' = IF o.kind = "emit" /\ want_list
                           THEN Append(out_rows, o.row) ELSE out_rows
            /\ yielded' = IF emitted # None THEN Append(yielded, emitted.row) ELSE yielded
            /\ pc' = IF emitted # None THEN "suspended" ELSE "reading"
    /\ UNCHANGED <<hdr, hdrOut, suffix, as_list, return_dataframe, required_fields,
                   date_fields, date_formatter, column_map, callValue, sinkFile,
                   flushes, fileOpen, raised, retval>>

\* The reader's loop ends: the source is exhausted.
EndOfSource ==
    /\ pc = "reading"
    /\ Finish(logs)
    /\ UNCHANGED <<hdr, hdrOut, suffix, as_list, return_dataframe, required_fields,
                   date_fields, date_formatter, column_map, callValue, hist,
                   invalid_rows, out_rows, yielded>>

\* Reading the source raises part-way (decoding, parsing, I/O).
ReadFails ==
    /\ pc = "reading"
    /\ Finish(logs \cup {ErrorLog("Exception")})
    /\ UNCHANGED <<hdr, hdrOut, suffix, as_list, return_dataframe, required_fields,
                   date_fields, date_formatter, column_map, callValue, hist,
                   invalid_rows, out_rows, yielded>>

\* The caller pulls the next record from the suspended generator.
Pull ==
    /\ pc = "suspended"
    /\ pc' = "reading"
    /\ UNCHANGED <<hdr, hdrOut, suffix, as_list, return_dataframe, required_fields,
                   date_fields, date_formatter, column_map, callValue, hist,
                   invalid_rows, out_rows, yielded, logs, sinkFile, flushes,
                   fileOpen, raised, retval>>

\* The caller stops pulling and the generator is closed: GeneratorExit is
\* raised at the yield of line 244.  It is no Exception, so no handler of
\* lines 246-250 catches it and lines 253-272 do not run.  The reader is
\* finalised with the generator's frame, which releases its handle.
Close ==
    /\ pc = "suspended"
    /\ pc' = "closed"
    /\ fileOpen' = FALSE
    /\ UNCHANGED <<hdr, hdrOut, suffix, as_list, return_dataframe, required_fields,
                   date_fields, date_formatter, column_map, callValue, hist,
                   invalid_rows, out_rows, yielded, logs, sinkFile, flushes,
                   raised, retval>>

Next ==
    \/ Start
    \/ StartUnsupported
    \/ StartOpenFails
    \/ ReadItem
    \/ EndOfSource
    \/ ReadFails
    \/ Pull
    \/ Close

Spec == Init /\ [][Next]_vars

-----------------------------------------------------------------------------
(* Calls of normalize_header on bounded inputs *)

HeaderAlphabet == {"A", "d", " ", "\t", "U+0131", "U+015F"}

H_AdiSoyadi == <<"A", "d", "U+0131", " ", "S", "o", "y", "a", "d", "U+0131">>

HeaderInputs ==
    UNION {[1..n -> HeaderAlphabet] : n \in 0..MaxHeaderLen} \cup {H_AdiSoyadi}

HeaderInit ==
    /\ hdr \in HeaderInputs
    /\ hdrOut = NotApplied
    /\ suffix = ".csv"
    /\ as_list = FALSE
    /\ return_dataframe = FALSE
    /\ required_fields = <<>>
    /\ column_map = <<>>
    /\ date_fields = <<>>
    /\ date_formatter = "None"
    /\ Created

CallNormalizeHeader ==
    /\ hdrOut = NotApplied
    /\ hdrOut' = Str(normalize_header(hdr))
    /\ UNCHANGED <<hdr, readVars>>

HeaderNext == CallNormalizeHeader

HeaderSpec == HeaderInit /\ [][HeaderNext]_vars

-----------------------------------------------------------------------------
(* Vocabulary of the properties *)

\* The records handed over so far: yielded in streaming mode, collected in
\* materialized mode.
Accepted == IF want_list THEN out_rows ELSE yielded

Terminated == pc \in {"done", "raised"}

\* A value that is present and not empty.
NonEmptyValue(v) == v \notin {None, Str(<<>>), Num(0)}

\* Every required name maps to a present, non-empty value of the record.
RequiredPresent(row) ==
    \A i \in 1..Len(req) : req[i] \in DOMAIN row /\ NonEmptyValue(row[req[i]])

RequiredAbsent(row) == ~RequiredPresent(row)

\* The canonical records of the items the reader normalised, in source order.
RECURSIVE CanonicalRows(_)
CanonicalRows(h) ==
    IF h = <<>> THEN <<>>
    ELSE LET o == ReaderStep(h[Len(h)])
         IN CanonicalRows(SubSeq(h, 1, Len(h) - 1))
              \o (IF o.kind \in {"reject", "emit"} THEN <<o.row>> ELSE <<>>)

IsPrefix(p, s) == Len(p) <= Len(s) /\ SubSeq(s, 1, Len(p)) = p

\* A sink entry made for a line that is no JSON object.
IsLineEntry(e) ==
    /\ K_errors \in DOMAIN e
    /\ e[K_errors].t = "list"
    /\ Len(e[K_errors].items) = 1
    /\ \/ IsPrefix(T_json_decode, e[K_errors].items[1])
       \/ e[K_errors].items[1] = T_json_not_object

IsRecordEntry(e) == ~IsLineEntry(e)

\* record e holds the fields of row, the key _errors left aside.
HoldsFieldsOf(e, row) ==
    \A k \in DOMAIN row \ {K_errors} : k \in DOMAIN e /\ e[k] = row[k]

\* Every value of a raw record is empty or falsy (also: it has no field).
IsBlankRecord(item) ==
    item.k = "obj" /\ \A i \in 1..Len(item.rec) : ~NonEmptyValue(item.rec[i][2])

-----------------------------------------------------------------------------
(* Properties *)

\* C1: a normalised record is delivered to the caller if and only if every
\* required name maps to a present, non-empty value of the canonical record;
\* otherwise it is appended to the invalid sink and never delivered.  So
\* the delivered records are exactly the canonical records with all
\* required values, in order, and the sink's record entries are exactly the
\* others, in order.
C1_AcceptedIffRequiredPresent ==
    LET rows == CanonicalRows(hist)
        good == SelectSeq(rows, RequiredPresent)
        bad == SelectSeq(rows, RequiredAbsent)
        sunk == SelectSeq(invalid_rows, IsRecordEntry)
    IN /\ Accepted = good
       /\ Len(sunk) = Len(bad)
       /\ \A i \in 1..Len(bad) : HoldsFieldsOf(sunk[i], bad[i])
       /\ \A i \in 1..Len(Accepted) : RequiredPresent(Accepted[i])

C1_Witness ==
    /\ req # <<>>
    /\ Accepted # <<>>
    /\ \E i \in 1..Len(invalid_rows) : IsRecordEntry(invalid_rows[i])

\* C2: with a suffix other than .csv, .xlsx, .json and .jsonl the call
\* raises a configuration error to its caller before any record is read.
C2_UnsupportedSuffixRaises ==
    (~Supported /\ pc # "created") => (raised = "ValueError" /\ hist = <<>>)

\* C3: once the read has ended the sink has been flushed exactly once; and
\* when the caller of streaming mode stops pulling early, the invalid rows
\* gathered so far are still flushed and the source handle is released.
C3_FlushOnEveryExit ==
    /\ Terminated => flushes = 1
    /\ pc = "closed" => (~fileOpen /\ (invalid_rows # <<>> => flushes = 1))

\* C4: a record whose values are all empty or falsy appears neither in the
\* accepted output nor in the invalid sink, in every format and for every
\* choice of required_fields.
C4_BlankNeverSurfaces ==
    (\A i \in 1..Len(hist) : IsBlankRecord(hist[i]))
        => (Accepted = <<>> /\ invalid_rows = <<>>)

\* C5: in materialized mode nothing is yielded, no exception reaches the
\* caller, and the result of the call is the ordered collection of the
\* accepted records, also when a file-level error ended the read.
C5_MaterializedResult ==
    (want_list /\ Terminated) =>
        /\ yielded = <<>>
        /\ raised = "none"
        /\ callValue \in {List(out_rows), DataFrame(out_rows)}

\* C6: with date_fields and no date_formatter every listed field that is
\* present and non-empty is reformatted by the default policy, so the row
\* (Ayse, Yilmaz, 1990-05-01) is delivered with birth_date = 01/05/1990.
C6_DefaultDateFormatting ==
    (date_formatter = "None" /\ column_map = <<>>) =>
        /\ \A i \in 1..Len(Accepted) : \A j \in 1..Len(date_keys) :
             LET r == Accepted[i]
                 dk == date_keys[j]
             IN (dk \in DOMAIN r /\ NonEmptyValue(r[dk])) => r[dk] = format_date(r[dk])
        /\ (fmt = ".csv" /\ hist = <<CsvAyse>> /\ date_keys = <<K_birth_date>>) =>
             Accepted = << (K_name :> Str(V_Ayse)) @@ (K_surname :> Str(V_Yilmaz))
                           @@ (K_birth_date :> Str(V_01_05_1990)) >>

\* The flush was due and left no file.
FlushFailed == Terminated /\ invalid_rows # <<>> /\ sinkFile = NoFile

\* C7: when the flush of the invalid sink fails at any step, read_data logs
\* an error and raises nothing to its caller.
C7_FlushFailureNeverRaises ==
    FlushFailed =>
        /\ raised = "none"
        /\ <<"error", "Could not write invalid rows">> \in logs

\* The rows passed to the sink, in rejection order.
RECURSIVE RejectedRows(_)
RejectedRows(h) ==
    IF h = <<>> THEN <<>>
    ELSE LET o == ReaderStep(h[Len(h)])
         IN RejectedRows(SubSeq(h, 1, Len(h) - 1))
              \o (IF o.kind \in {"reject", "sink"} THEN <<o.row>> ELSE <<>>)

K_errors_plain == <<"e", "r", "r", "o", "r", "s">>

RefFold(c) ==
    CASE c = "U+0131" -> <<"i">>
      [] c = "U+015F" -> <<"s">>
      [] c = "U+0130" -> <<"I">>
      [] c = "U+00A0" -> <<" ">>
      [] c \in NonAscii -> <<>>
      [] OTHER -> <<c>>

RECURSIVE RefFoldSeq(_)
RefFoldSeq(s) == IF s = <<>> THEN <<>> ELSE RefFold(Head(s)) \o RefFoldSeq(Tail(s))

RECURSIVE CollapseSpaces(_)
CollapseSpaces(s) ==
    IF s = <<>> THEN <<>>
    ELSE IF Head(s) # " " THEN <<Head(s)>> \o CollapseSpaces(Tail(s))
    ELSE IF Len(s) > 1 /\ s[2] = " " THEN CollapseSpaces(Tail(s))
    ELSE <<"_">> \o CollapseSpaces(Tail(s))

RefNormalize(s) ==
    IF s = <<>> THEN <<>> ELSE CollapseSpaces(LowerSeq(Strip(RefFoldSeq(s))))

\* C9: normalize_header equals the reference normaliser on every input; in
\* particular "Adi Soyadi" written with dotless i gives "adi_soyadi".
C9_NormalizeHeaderIsReference ==
    hdrOut # NotApplied => hdrOut = Str(RefNormalize(hdr))

IsBadLine(item) == item.k \in {"malformed", "scalar"}

\* C10: in the newline-delimited-JSON reader every line that fails to parse
\* is appended to the sink with a reason starting "json_decode:" and every
\* line that parses to a non-object with the reason "json_not_object"; the
\* entry holds the line as read and nothing else, the line is never
\* delivered, and the lines after it are still processed: {"name":"A"}
\* without the required surname followed by a malformed line delivers
\* nothing and leaves exactly two sink entries.
C10_JsonlBadLinesToSink ==
    fmt = ".jsonl" =>
        LET lines == SelectSeq(hist, IsBadLine)
            entries == SelectSeq(invalid_rows, IsLineEntry)
        IN /\ Len(entries) = Len(lines)
           /\ \A i \in 1..Len(lines) :
                /\ DOMAIN entries[i] = {K_raw, K_errors}
                /\ entries[i][K_raw] = Str(lines[i].text)
                /\ LET reason == entries[i][K_errors].items[1]
                   IN IF lines[i].k = "malformed"
                      THEN IsPrefix(T_json_decode, reason)
                      ELSE reason = T_json_not_object
           /\ \A i \in 1..Len(Accepted) : K_raw \notin DOMAIN Accepted[i]
           /\ Len(Accepted) + Len(invalid_rows)
                >= Cardinality({i \in 1..Len(hist) :
                                  IsBadLine(hist[i]) \/ hist[i] \in {ObjA, ObjErr}})
           /\ (hist = <<ObjA, Malformed>> /\ req = <<K_surname>>) =>
                /\ Accepted = <<>>
                /\ Len(invalid_rows) = 2
                /\ invalid_rows[1][K_errors].items = <<T_missing \o K_surname>>
                /\ IsPrefix(T_json_decode, invalid_rows[2][K_errors].items[1])

C10_Witness ==
    /\ fmt = ".jsonl"
    /\ req = <<K_surname>>
    /\ hist = <<Malformed, ObjA>>
    /\ Len(invalid_rows) = 2

=============================================================================
